---- MODULE Spec2Model ----
(***************************************************************************)
(* Model of dashboard.py: the referral ("downline") dashboard.             *)
(*                                                                         *)
(* df is the cleaned frame returned by load_data, one record per row.      *)
(* Columns: phone = 手机号, referrer = 推荐人手机号, name = 姓名,          *)
(* date = 领卡时间, tier = 等级, direct_orders = 直推订单数,               *)
(* direct_amount = 直推订单金额, team_orders = 团队订单数,                 *)
(* team_amount = 团队订单金额.                                             *)
(***************************************************************************)
EXTENDS Integers, Sequences, FiniteSets, TLC

VARIABLES
    df,              \* the loaded frame (sequence of rows)
    start_date,      \* sidebar date input, line 106
    end_date,        \* sidebar date input, line 107
    selected_names,  \* multiselect result, line 97
    index,           \* position of the for loop of main, line 120
    all_users_data,  \* list of per-user dictionaries, line 114
    warnings,        \* st.warning calls made so far
    summary_df,      \* summary table, line 160
    pc,              \* position in main: "loop", "traverse" or "done"
    user_phone,      \* phone of the user being reported, line 129
    stack,           \* running for loops of find_all_subordinates
    all_subs,        \* the list all_subs of find_all_subordinates
    lookups,         \* phones looked up at line 62 in this traversal:
                     \* seen (at least once) and again (more than once)
    calls,           \* calls of find_all_subordinates in this traversal
    called_level,    \* argument level of a call of calculate_metrics
    metrics          \* what that call returned

vars == <<df, start_date, end_date, selected_names, index, all_users_data,
          warnings, summary_df, pc, user_phone, stack, all_subs, lookups,
          calls, called_level, metrics>>

----------------------------------------------------------------------------
(* Sizes of the input family *)

NPhones == 2

MaxSelected == 2

(* Program constants *)

max_depth == 100

black_card == "black_card"   \* the tier value "黑金卡"

gold_card == "gold_card"     \* any other tier value

Phones == 1..NPhones

\* A referrer phone that is the phone of no row (load_data keeps such rows:
\* it only drops rows whose referrer is the empty string).
Referrers == 0..NPhones

Dates == {1, 2}

\* total number of rows of the long single-file chains of the input family
LongChain == 150

ChainSizes == {max_depth + 1, max_depth + 2, max_depth + 3, LongChain}

----------------------------------------------------------------------------
(* Helpers on sequences (pandas selections keep row order) *)

Range(s) == {s[i] : i \in 1..Len(s)}

PhoneList(rows) == [i \in 1..Len(rows) |-> rows[i].phone]

RECURSIVE SumOf(_, _, _)
SumOf(rows, col, i) ==
    IF i > Len(rows) THEN 0 ELSE rows[i][col] + SumOf(rows, col, i + 1)

NameOf(p) == 1000 + p

MemberRow(p, ref, d) ==
    [phone |-> p, referrer |-> ref, name |-> NameOf(p), date |-> d,
     tier |-> IF p % 2 = 0 THEN black_card ELSE gold_card,
     direct_orders |-> p, direct_amount |-> 10 * p,
     team_orders |-> 2 * p + 1, team_amount |-> 100 * p + 7]

----------------------------------------------------------------------------
(* find_all_subordinates, lines 56-67, one step per call.                  *)
(*                                                                         *)
(* The recursion is held in stack: one frame per for loop of line 65 that  *)
(* is still running, [subs |-> the phones it iterates over, i |-> the next *)
(* position].  The loop of frame k runs inside the call of depth k - 1 and *)
(* makes its calls with depth k.  all_subs is the list shared by all the   *)
(* calls.                                                                  *)

\* no bound at all
depth_exceeded_never(depth, maxd) == FALSE

\* a bound that already stops the call of depth max_depth
depth_exceeded_inclusive(depth, maxd) == depth >= maxd

\* line 59
depth_exceeded(depth, maxd) == depth > maxd

\* a depth check that returns without telling anybody
depth_warning_silent(w, at) == w

\* line 60
depth_warning(w, at) == Append(w, [kind |-> "depth", at |-> at])

\* a depth check that throws the list away
returned_on_depth_nothing(subs) == <<>>

\* line 61: the list accumulated so far is returned
returned_on_depth(subs) == subs

\* an extend that keeps the first direct subordinate only
extend_first_only(subs, direct_subs) == Append(subs, direct_subs[1])

\* line 64
extend(subs, direct_subs) == subs \o direct_subs

\* line 62
direct_subs_of(d, phone) == SelectSeq(d, LAMBDA r : r.referrer = phone)

\* line 66 returning, and line 65 running out of elements: drop the loops
\* that have no element left
RECURSIVE unwind(_)
unwind(st) ==
    IF st # <<>> /\ st[Len(st)].i > Len(st[Len(st)].subs)
    THEN unwind(SubSeq(st, 1, Len(st) - 1))
    ELSE st

\* line 62 seen from outside: which phones were looked up, and which twice
note_lookup(lk, phone) ==
    [seen |-> lk.seen \cup {phone},
     again |-> IF phone \in lk.seen THEN lk.again \cup {phone} ELSE lk.again]

\* lines 59-66: the body of one call, up to the start of its for loop.
\* st is the stack of the caller, subs the shared list, w the warnings.
call(d, phone, depth, st, subs, w, at, lk) ==
    IF depth_exceeded(depth, max_depth)
    THEN [stack |-> unwind(st), all_subs |-> returned_on_depth(subs),
          warnings |-> depth_warning(w, at), lookups |-> lk]
    ELSE LET direct_subs == PhoneList(direct_subs_of(d, phone))
         IN  IF direct_subs = <<>>
             THEN [stack |-> unwind(st), all_subs |-> subs, warnings |-> w,
                   lookups |-> note_lookup(lk, phone)]
             ELSE [stack |-> Append(st, [subs |-> direct_subs, i |-> 1]),
                   all_subs |-> extend(subs, direct_subs), warnings |-> w,
                   lookups |-> note_lookup(lk, phone)]

----------------------------------------------------------------------------
(* calculate_metrics, lines 70-79 *)

\* the team columns whatever the level
calculate_metrics_team_only(rows, level) ==
    <<Len(rows), Len(SelectSeq(rows, LAMBDA r : r.tier = black_card)),
      SumOf(rows, "team_orders", 1), SumOf(rows, "team_amount", 1)>>

calculate_metrics(rows, level) ==
    LET sub_count == Len(rows)
        black_card_count ==
            IF rows # <<>>
            THEN Len(SelectSeq(rows, LAMBDA r : r.tier = black_card))
            ELSE 0
        order_count ==
            IF level = "direct" /\ rows # <<>>
            THEN SumOf(rows, "direct_orders", 1)
            ELSE SumOf(rows, "team_orders", 1)
        order_amount ==
            IF level = "direct" /\ rows # <<>>
            THEN SumOf(rows, "direct_amount", 1)
            ELSE SumOf(rows, "team_amount", 1)
    IN  <<sub_count, black_card_count, order_count, order_amount>>

----------------------------------------------------------------------------
(* main, lines 82-170 *)

\* lines 110-111
filtered_df(d, s, e) == SelectSeq(d, LAMBDA r : r.date >= s /\ r.date <= e)

\* a traversal of the whole frame, filtered afterwards only
traversed_df_unfiltered(d, s, e) == d

\* line 135: the frame handed to find_all_subordinates
traversed_df(d, s, e) == filtered_df(d, s, e)

\* a lookup of the selected name in the whole frame
target_user_unfiltered(d, s, e, name) == SelectSeq(d, LAMBDA r : r.name = name)

\* line 124
target_user(d, s, e, name) ==
    SelectSeq(filtered_df(d, s, e), LAMBDA r : r.name = name)

\* line 136
isin(d, phones) == SelectSeq(d, LAMBDA r : r.phone \in Range(phones))

\* lines 132-156: the dictionary built for one selected user, given the
\* list returned by find_all_subordinates
user_data(fdf, name, phone, all_subs_phones) ==
    LET direct_subs == direct_subs_of(fdf, phone)
        all_subs_rows == isin(fdf, all_subs_phones)
        direct_metrics == calculate_metrics(direct_subs, "direct")
        all_metrics == calculate_metrics(all_subs_rows, "all")
    IN  [name |-> name, phone |-> phone,
         direct_count |-> direct_metrics[1], direct_black |-> direct_metrics[2],
         direct_orders |-> direct_metrics[3], direct_amount |-> direct_metrics[4],
         all_count |-> all_metrics[1], all_black |-> all_metrics[2],
         team_orders |-> all_metrics[3], team_amount |-> all_metrics[4],
         direct_list |-> PhoneList(direct_subs),
         all_list |-> PhoneList(all_subs_rows)]

\* lines 160-170: one row of the summary table
summary_row(data) ==
    [name |-> data.name,
     direct_count |-> data.direct_count, direct_black |-> data.direct_black,
     direct_orders |-> data.direct_orders, direct_amount |-> data.direct_amount,
     all_count |-> data.all_count, all_black |-> data.all_black,
     team_orders |-> data.team_orders, team_amount |-> data.team_amount]

\* injective sequences over S of length at most n (st.multiselect)
Selections(S, n) ==
    {s \in UNION {[1..k -> S] : k \in 0..n} :
        \A i, j \in 1..Len(s) : i # j => s[i] # s[j]}

\* The frames of the input family hold one row per phone, as load_data is
\* meant to deliver them; a row may name any phone as its referrer, its own
\* or that of a subordinate included.  At most one row has the later date.
SmallFrames ==
    {[i \in Phones |-> MemberRow(i, refs[i], dates[i])] :
        refs \in [Phones -> Referrers],
        dates \in {f \in [Phones -> Dates] :
                      Cardinality({i \in Phones : f[i] # 1}) <= 1}}

\* A refers B, B refers C and C refers A
CycleFrame == <<MemberRow(1, 3, 1), MemberRow(2, 1, 1), MemberRow(3, 2, 1)>>

\* R refers C, C refers G, and C alone took its card on the later date
BridgeFrame == <<MemberRow(1, 0, 1), MemberRow(2, 1, 2), MemberRow(3, 2, 1)>>

\* a root with two direct subordinates, the first of which has one itself
TreeFrame ==
    <<MemberRow(1, 0, 1), MemberRow(2, 1, 1), MemberRow(3, 1, 1), MemberRow(4, 2, 1)>>

ChainFrame(n) == [i \in 1..n |-> MemberRow(i, i - 1, 1)]

NoLookups == [seen |-> {}, again |-> {}]

Init ==
    /\ \/ /\ df \in SmallFrames \cup {CycleFrame, BridgeFrame, TreeFrame}
          /\ start_date \in Dates
          /\ end_date \in Dates
          /\ selected_names \in
                Selections({df[k].name : k \in 1..Len(df)}, MaxSelected)
       \/ /\ df \in {ChainFrame(n) : n \in ChainSizes}
          /\ start_date = 1
          /\ end_date = 2
          /\ selected_names \in {<<NameOf(1)>>, <<NameOf(2)>>}
    /\ index = 1
    /\ all_users_data = <<>>
    /\ warnings = <<>>
    /\ summary_df = <<>>
    /\ pc = "loop"
    /\ user_phone = 0
    /\ stack = <<>>
    /\ all_subs = <<>>
    /\ lookups = NoLookups
    /\ calls = 0
    /\ called_level = "none"
    /\ metrics = <<>>

\* lines 124-127: the selected name has no row in the filtered frame
SkipUser ==
    /\ pc = "loop"
    /\ index <= Len(selected_names)
    /\ target_user(df, start_date, end_date, selected_names[index]) = <<>>
    /\ warnings' = Append(warnings, [kind |-> "skip", at |-> index])
    /\ index' = index + 1
    /\ UNCHANGED <<df, start_date, end_date, selected_names, all_users_data,
                   summary_df, pc, user_phone, stack, all_subs, lookups,
                   calls, called_level, metrics>>

\* lines 129-135: the user is found; find_all_subordinates is called with
\* all_subs = [] and depth = 0
StartUser ==
    /\ pc = "loop"
    /\ index <= Len(selected_names)
    /\ target_user(df, start_date, end_date, selected_names[index]) # <<>>
    /\ LET phone == target_user(df, start_date, end_date, selected_names[index])[1].phone
           r == call(traversed_df(df, start_date, end_date), phone, 0, <<>>, <<>>,
                     warnings, index, NoLookups)
       IN  /\ user_phone' = phone
           /\ stack' = r.stack
           /\ all_subs' = r.all_subs
           /\ warnings' = r.warnings
           /\ lookups' = r.lookups
    /\ calls' = 1
    /\ pc' = "traverse"
    /\ UNCHANGED <<df, start_date, end_date, selected_names, index,
                   all_users_data, summary_df, called_level, metrics>>

\* lines 65-66: the innermost running loop takes its next element and calls
\* find_all_subordinates on it, one level deeper
VisitSub ==
    /\ pc = "traverse"
    /\ stack # <<>>
    /\ LET top == stack[Len(stack)]
           st == [stack EXCEPT ![Len(stack)].i = top.i + 1]
           r == call(traversed_df(df, start_date, end_date), top.subs[top.i],
                     Len(stack), st, all_subs, warnings, index, lookups)
       IN  /\ stack' = r.stack
           /\ all_subs' = r.all_subs
           /\ warnings' = r.warnings
           /\ lookups' = r.lookups
    /\ calls' = calls + 1
    /\ UNCHANGED <<df, start_date, end_date, selected_names, index,
                   all_users_data, summary_df, pc, user_phone, called_level, metrics>>

\* lines 136-157: find_all_subordinates has returned
ReportUser ==
    /\ pc = "traverse"
    /\ stack = <<>>
    /\ all_users_data' =
           Append(all_users_data,
                  user_data(filtered_df(df, start_date, end_date),
                            selected_names[index], user_phone, all_subs))
    /\ index' = index + 1
    /\ pc' = "loop"
    /\ UNCHANGED <<df, start_date, end_date, selected_names, warnings,
                   summary_df, user_phone, stack, all_subs, lookups,
                   calls, called_level, metrics>>

\* lines 160-170
Summarize ==
    /\ pc = "loop"
    /\ index > Len(selected_names)
    /\ summary_df' = [i \in 1..Len(all_users_data) |-> summary_row(all_users_data[i])]
    /\ pc' = "done"
    /\ UNCHANGED <<df, start_date, end_date, selected_names, index,
                   all_users_data, warnings, user_phone, stack, all_subs, lookups,
                   calls, called_level, metrics>>

Next == SkipUser \/ StartUser \/ VisitSub \/ ReportUser \/ Summarize

Spec == Init /\ [][Next]_vars

----------------------------------------------------------------------------
(* calculate_metrics on its own: every small frame, both levels *)

MaxRows == 2

MetricRows ==
    [phone : {1}, referrer : {0}, name : {NameOf(1)}, date : {1},
     tier : {black_card, gold_card},
     direct_orders : {0, 1}, direct_amount : {0, 3},
     team_orders : {0, 2}, team_amount : {0, 5}]

InitMetrics ==
    /\ df \in UNION {[1..k -> MetricRows] : k \in 0..MaxRows}
    /\ start_date = 1
    /\ end_date = 1
    /\ selected_names = <<>>
    /\ index = 1
    /\ all_users_data = <<>>
    /\ warnings = <<>>
    /\ summary_df = <<>>
    /\ pc = "metrics"
    /\ user_phone = 0
    /\ stack = <<>>
    /\ all_subs = <<>>
    /\ lookups = NoLookups
    /\ calls = 0
    /\ called_level = "none"
    /\ metrics = <<>>

\* line 139
DirectMetrics ==
    /\ pc = "metrics"
    /\ called_level = "none"
    /\ called_level' = "direct"
    /\ metrics' = calculate_metrics(df, "direct")
    /\ UNCHANGED <<df, start_date, end_date, selected_names, index,
                   all_users_data, warnings, summary_df, pc, user_phone, stack,
                   all_subs, lookups, calls>>

\* line 140
AllMetrics ==
    /\ pc = "metrics"
    /\ called_level = "none"
    /\ called_level' = "all"
    /\ metrics' = calculate_metrics(df, "all")
    /\ UNCHANGED <<df, start_date, end_date, selected_names, index,
                   all_users_data, warnings, summary_df, pc, user_phone, stack,
                   all_subs, lookups, calls>>

NextMetrics == DirectMetrics \/ AllMetrics

SpecMetrics == InitMetrics /\ [][NextMetrics]_vars

----------------------------------------------------------------------------
(* What the claims speak of, defined without the traversal *)

\* the frame the reports are computed from
FDF == filtered_df(df, start_date, end_date)

PhoneSet(d) == {d[i].phone : i \in 1..Len(d)}

\* members of d whose referrer is in S
Children(d, S) == {d[i].phone : i \in {j \in 1..Len(d) : d[j].referrer \in S}}

Grow(d, S) == S \cup Children(d, S)

Grow8(d, S) == Grow(d, Grow(d, Grow(d, Grow(d, Grow(d, Grow(d, Grow(d, Grow(d, S))))))))

\* S with everything at most n referrer links below it
RECURSIVE GrowN(_, _, _)
GrowN(d, S, n) ==
    IF n = 0 THEN S
    ELSE IF n >= 8
         THEN LET T == Grow8(d, S) IN IF T = S THEN T ELSE GrowN(d, T, n - 8)
         ELSE LET T == Grow(d, S) IN IF T = S THEN T ELSE GrowN(d, T, n - 1)

\* the members one to n referrer links below root
Within(d, root, n) == IF n = 0 THEN {} ELSE GrowN(d, Children(d, {root}), n - 1)

\* the members one link or more below root
Descendants(d, root) == Within(d, root, Len(d))

Step8(d, S) ==
    Children(d, Children(d, Children(d, Children(d,
        Children(d, Children(d, Children(d, Children(d, S))))))))

\* the members exactly n links below some member of S (walks may repeat
\* members when the referrer links form a cycle)
RECURSIVE LevelN(_, _, _)
LevelN(d, S, n) ==
    IF n = 0 \/ S = {} THEN S
    ELSE IF n >= 8 THEN LevelN(d, Step8(d, S), n - 8)
         ELSE LevelN(d, Children(d, S), n - 1)

NoDuplicates(s) == \A i, j \in 1..Len(s) : i # j => s[i] # s[j]

\* each phone on one row, and no member is below itself
WellFormedForest(d) ==
    /\ NoDuplicates(PhoneList(d))
    /\ LevelN(d, PhoneSet(d), Len(d)) = {}

InWindow(r) == r.date >= start_date /\ r.date <= end_date

\* the report built for the i-th selected name, if any: reports are appended
\* in selection order and absent names have none
PresentBefore(i) ==
    Cardinality({j \in 1..(i - 1) :
        \E k \in 1..Len(FDF) : FDF[k].name = selected_names[j]})

IsPresent(i) == \E k \in 1..Len(FDF) : FDF[k].name = selected_names[i]

DepthWarned(i) ==
    \E k \in 1..Len(warnings) : warnings[k] = [kind |-> "depth", at |-> i]

\* indexes of the selected names whose report is in all_users_data
Reported == {i \in 1..Len(selected_names) : i < index /\ IsPresent(i)}

ReportOf(i) == all_users_data[PresentBefore(i) + 1]

RECURSIVE SumBetween(_, _, _, _, _)
SumBetween(d, S, col, lo, hi) ==
    IF lo > hi THEN 0
    ELSE IF lo = hi THEN (IF d[lo].phone \in S THEN d[lo][col] ELSE 0)
    ELSE SumBetween(d, S, col, lo, (lo + hi) \div 2)
         + SumBetween(d, S, col, (lo + hi) \div 2 + 1, hi)

\* sum of column col over the rows of d whose phone is in S
ColumnSum(d, S, col) == SumBetween(d, S, col, 1, Len(d))

RowCount(d, S) == Cardinality({i \in 1..Len(d) : d[i].phone \in S})

BlackCount(d, S) ==
    Cardinality({i \in 1..Len(d) : d[i].phone \in S /\ d[i].tier = black_card})

Root(i) == ReportOf(i).phone

AllSet(i) == Range(ReportOf(i).all_list)

\* the chain frames of the input family
IsChain == df \in {ChainFrame(n) : n \in ChainSizes}

Min(a, b) == IF a < b THEN a ELSE b

----------------------------------------------------------------------------
(* The claims *)

\* C1 as stated: in every well-formed forest, for every reported root, the
\* all-downline subset is exactly the set of members one or more referrer
\* links below the root, without the root and without repetition.
C1_ExactDownlineOfForest ==
    (pc = "done" /\ WellFormedForest(FDF)) =>
        \A i \in Reported :
            /\ AllSet(i) = Descendants(FDF, Root(i))
            /\ Root(i) \notin AllSet(i)
            /\ NoDuplicates(ReportOf(i).all_list)

\* C1 amended: the same, for the roots that have no member more than
\* max_depth + 1 referrer links below them.
C1_ExactDownlineWithinDepth ==
    (pc = "done" /\ WellFormedForest(FDF)) =>
        \A i \in Reported :
            Descendants(FDF, Root(i)) = Within(FDF, Root(i), max_depth + 1) =>
                /\ AllSet(i) = Descendants(FDF, Root(i))
                /\ Root(i) \notin AllSet(i)
                /\ NoDuplicates(ReportOf(i).all_list)

C1_Witness ==
    /\ pc = "done"
    /\ WellFormedForest(FDF)
    /\ \E i \in Reported :
          /\ Len(ReportOf(i).all_list) = max_depth + 1
          /\ Descendants(FDF, Root(i)) = Within(FDF, Root(i), max_depth + 1)

\* C2: for every input, the phone of a reported root is not in the
\* all-downline subset of that root.
C2_RootNeverInOwnDownline ==
    \A i \in Reported : Root(i) \notin AllSet(i)

\* C3: a traversal always has a next call to make or has returned, it
\* makes at most 1 + (max_depth + 1) * (number of rows) calls and so returns
\* a finite list, and a reported root that lies on a referrer cycle (such
\* as A->B->C->A) has had the depth warning.
C3_TerminatesAndWarns ==
    /\ (pc = "traverse" /\ stack # <<>>) =>
          stack[Len(stack)].i <= Len(stack[Len(stack)].subs)
    /\ Len(stack) <= max_depth + 1
    /\ index <= Len(selected_names) + 1
    /\ calls <= 1 + (max_depth + 1) * Len(FDF)
    /\ Len(all_subs) <= (max_depth + 1) * Len(FDF)
    /\ \A i \in Reported :
          Root(i) \in Descendants(FDF, Root(i)) => DepthWarned(i)

C3_Witness ==
    /\ pc = "done"
    /\ \E i \in Reported : \E b, c \in 1..Len(FDF) :
          /\ FDF[b].referrer = Root(i)
          /\ FDF[c].referrer = FDF[b].phone
          /\ FDF[c].phone # Root(i)
          /\ \E a \in 1..Len(FDF) :
                FDF[a].phone = Root(i) /\ FDF[a].referrer = FDF[c].phone
          /\ DepthWarned(i)
          /\ Len(ReportOf(i).all_list) = 3

\* C4 as stated: the head of the single-file chain of LongChain members
\* gets exactly max_depth members, the first max_depth after it, and the
\* depth warning.
C4_ChainGivesMaxDepthMembers ==
    (pc = "done" /\ df = ChainFrame(LongChain) /\ selected_names = <<NameOf(1)>>) =>
        /\ ReportOf(1).all_list = [k \in 1..100 |-> k + 1]
        /\ DepthWarned(1)

\* C4 amended: it gets exactly max_depth + 1 = 101 members, the first 101
\* after it, and the depth warning; and in every chain a root gets the
\* first 101 members below it, or all of them when they are fewer, with
\* the warning exactly when a member lies 101 links below it.
C4_ChainGivesMaxDepthPlusOne ==
    (pc = "done" /\ IsChain) =>
        /\ ReportOf(1).all_list =
               [k \in 1..Min(Len(df) - Root(1), 101) |-> Root(1) + k]
        /\ DepthWarned(1) <=> Len(df) - Root(1) >= 101

C4_Witness ==
    /\ pc = "done"
    /\ df = ChainFrame(LongChain)
    /\ selected_names = <<NameOf(1)>>
    /\ Len(ReportOf(1).all_list) = 101
    /\ DepthWarned(1)

\* the rows of the loaded frame that are in the date window
WindowFrame == SelectSeq(df, InWindow)

\* C5: every member of a reported all-downline subset is in the window and
\* hangs below the root by links through members in the window only; a
\* member whose referrer is a direct subordinate outside the window is not
\* in the subset.
C5_FilterBeforeTraverse ==
    pc = "done" =>
        \A i \in Reported :
            /\ AllSet(i) \subseteq Descendants(WindowFrame, Root(i))
            /\ \A p \in AllSet(i) :
                  \E k \in 1..Len(df) : df[k].phone = p /\ InWindow(df[k])
            /\ \A c, g \in 1..Len(df) :
                  (/\ df[c].referrer = Root(i)
                   /\ ~InWindow(df[c])
                   /\ df[g].referrer = df[c].phone) =>
                      df[g].phone \notin AllSet(i)

C5_Witness ==
    /\ pc = "done"
    /\ \E i \in Reported : \E c, g \in 1..Len(df) :
          /\ df[c].referrer = Root(i)
          /\ ~InWindow(df[c])
          /\ df[g].referrer = df[c].phone
          /\ InWindow(df[g])
          /\ df[g].phone # Root(i)

\* the summary row of a name, from the frame alone
ExpectedSummary(name) ==
    LET root == FDF[CHOOSE k \in 1..Len(FDF) :
                      /\ FDF[k].name = name
                      /\ \A j \in 1..(k - 1) : FDF[j].name # name].phone
        direct == Children(FDF, {root})
        team == Within(FDF, root, max_depth + 1)
    IN  [name |-> name,
         direct_count |-> RowCount(FDF, direct),
         direct_black |-> BlackCount(FDF, direct),
         direct_orders |-> ColumnSum(FDF, direct, "direct_orders"),
         direct_amount |-> ColumnSum(FDF, direct, "direct_amount"),
         all_count |-> RowCount(FDF, team),
         all_black |-> BlackCount(FDF, team),
         team_orders |-> ColumnSum(FDF, team, "team_orders"),
         team_amount |-> ColumnSum(FDF, team, "team_amount")]

PresentNames ==
    SelectSeq(selected_names,
              LAMBDA n : \E k \in 1..Len(FDF) : FDF[k].name = n)

\* C6: at the end the summary has one row for each selected name that has
\* a row in the filtered frame, in selection order, with the values that
\* follow from the frame and the name alone; each other selected name got
\* a skip warning and no row.
C6_UnknownRootsSkipped ==
    pc = "done" =>
        /\ Len(summary_df) = Len(PresentNames)
        /\ \A k \in 1..Len(PresentNames) :
              summary_df[k] = ExpectedSummary(PresentNames[k])
        /\ \A i \in 1..Len(selected_names) :
              ~IsPresent(i) <=>
                  \E k \in 1..Len(warnings) :
                      warnings[k] = [kind |-> "skip", at |-> i]

C6_Witness ==
    /\ pc = "done"
    /\ Len(selected_names) = 2
    /\ ~IsPresent(1)
    /\ IsPresent(2)
    /\ Len(summary_df) = 1
    /\ summary_df[1].all_count > 0

\* C7: calculate_metrics returns the number of rows, the number of black
\* card rows, and the sums of the direct columns for level "direct" and of
\* the team columns otherwise; all four are zero for the empty frame.
C7_Metrics ==
    called_level # "none" =>
        /\ metrics[1] = RowCount(df, PhoneSet(df))
        /\ metrics[2] = BlackCount(df, PhoneSet(df))
        /\ called_level = "direct" =>
              /\ metrics[3] = ColumnSum(df, PhoneSet(df), "direct_orders")
              /\ metrics[4] = ColumnSum(df, PhoneSet(df), "direct_amount")
        /\ called_level = "all" =>
              /\ metrics[3] = ColumnSum(df, PhoneSet(df), "team_orders")
              /\ metrics[4] = ColumnSum(df, PhoneSet(df), "team_amount")
        /\ df = <<>> => metrics = <<0, 0, 0, 0>>

C7_Witness ==
    /\ called_level = "direct"
    /\ Len(df) = 2
    /\ metrics[2] = 1
    /\ metrics[3] = 2
    /\ metrics[4] = 3
    /\ ColumnSum(df, PhoneSet(df), "team_orders") = 4

\* C8: in one traversal no phone is added to all_subs twice and no phone
\* has its direct subordinates looked up twice.
C8_EachIdOnce ==
    /\ NoDuplicates(all_subs)
    /\ lookups.again = {}

\* C9 as stated: a root that got the depth warning has a partial subset
\* (a member below it is missing), it still has its report, and every
\* present selected name has one.
C9_WarningMeansPartial ==
    pc = "done" =>
        /\ Len(all_users_data) = Len(PresentNames)
        /\ Len(summary_df) = Len(PresentNames)
        /\ \A i \in Reported :
              DepthWarned(i) =>
                  ~(Descendants(FDF, Root(i)) \subseteq AllSet(i))

\* C9 amended: a root that got the depth warning has a member max_depth + 1
\* links below it (a walk round a cycle counts) and its subset holds the
\* members up to max_depth + 1 links below it, which may be all of them;
\* it still has its report, and every present selected name has one.
C9_WarningMeansDepthReached ==
    pc = "done" =>
        /\ Len(all_users_data) = Len(PresentNames)
        /\ Len(summary_df) = Len(PresentNames)
        /\ \A i \in Reported :
              DepthWarned(i) =>
                  /\ LevelN(FDF, {Root(i)}, max_depth + 1) # {}
                  /\ AllSet(i) = Within(FDF, Root(i), max_depth + 1)

C9_Witness ==
    /\ pc = "done"
    /\ Len(selected_names) = 2
    /\ IsPresent(1)
    /\ IsPresent(2)
    /\ DepthWarned(1)
    /\ ~DepthWarned(2)
    /\ Len(all_users_data) = 2
    /\ Descendants(FDF, Root(1)) \subseteq AllSet(1)

\* C10: a root that got no depth warning has every member below it in its
\* subset, its direct subordinates among them, so that its direct count is
\* at most its team count.
C10_NoSilentTruncation ==
    pc = "done" =>
        \A i \in Reported :
            ~DepthWarned(i) =>
                /\ Descendants(FDF, Root(i)) \subseteq AllSet(i)
                /\ Children(FDF, {Root(i)}) \subseteq AllSet(i)
                /\ ReportOf(i).direct_count <= ReportOf(i).all_count

C10_Witness ==
    /\ pc = "done"
    /\ \E i \in Reported :
          /\ ~DepthWarned(i)
          /\ Len(ReportOf(i).all_list) = max_depth
          /\ ReportOf(i).direct_count = 1

====
